---- MODULE Spec2Model ----
(***************************************************************************)
(* Model of the asyncio version of seed_watcher (src/src): two monitor     *)
(* coroutines (check_localisation_status, get_download_speed) that write a *)
(* shared attribute, and two LED coroutines (blink_led) that read it and   *)
(* drive GPIO pins.  One step of a task is what the coroutine executes     *)
(* between two awaits: asyncio runs it without interleaving.               *)
(***************************************************************************)
EXTENDS Integers, FiniteSets, Sequences, TLC

\* ---------------------------------------------------------------- constants
\* d_speed_max = int(0.75e+06)
DSpeedMax == 750000
\* freq_min = 0.5 Hz, written in half hertz
FreqMinHalfHz == 1
\* freq_max = 12 Hz, written in half hertz
FreqMaxHalfHz == 24
\* self._freq = 2.
LocFreqHz == 2

\* ------------------------------------------------------------------- bounds
\* download speeds reported by the daemon: 0, 1 and multiples of DSpeedMax/2
MaxSpeedSteps == 4
\* number of LED phases of the localization driver that are remembered
MaxHist == 3

Speeds == {k * (DSpeedMax \div 2) : k \in 0..MaxSpeedSteps} \cup {1}

\* A frequency f is kept as the integer f * FreqDen (hertz times 2*d_speed_max),
\* a duration as the fraction num/den of a second.
FreqDen == 2 * DSpeedMax
NoDuration == [num |-> 0, den |-> 1]

Pins == {"led_ok", "led_ko", "led"}

VARIABLES
    shutdown,        \* the supervisor has cancelled the four tasks
    pcLocMon,        \* check_localisation_status: where the coroutine is suspended
    licit_ip,        \* BlinkingLocalization._licit_ip
    pcLocDrv,        \* BlinkingLocalization.blink_led: where it is suspended
    loc_ontime,      \* blink_led locals ontime, offtime
    loc_offtime,
    locSleep,        \* duration of the sleep blink_led is suspended in
    pcDlMon,         \* get_download_speed: where the coroutine is suspended
    download_speed,  \* BlinkingDownloadSpeed.__download_speed
    pcDlDrv,         \* BlinkingDownloadSpeed.blink_led: where it is suspended
    freq,            \* blink_led locals freq, ontime, offtime
    dl_ontime,
    dl_offtime,
    dlSleep,         \* duration of the sleep blink_led is suspended in
    mode,            \* GPIO direction of each pin: "UNSET", "OUT", "IN"
    level,           \* GPIO output latch of each pin: "LOW", "HIGH"
    \* history variables (observations, not program state)
    dlSample,        \* the speed blink_led read at the start of the current cycle
    locCancelAt,     \* where blink_led (localization) was when cancellation arrived
    dlCancelAt,      \* where blink_led (download) was when cancellation arrived
    lastLocCheck,    \* outcome of the latest finished localization check
    lastDlCheck,     \* outcome of the latest finished stats call
    dlChecks,        \* "none", "allfailed" or "mixed": the stats calls so far
    locHist,         \* the last MaxHist LED phases shown by the localization driver
    locBeat,         \* parity of the number of loop passes of the localization driver
    lastLookup,      \* what the lookup of the latest finished localization check produced
    locWritten,      \* the value of the latest assignment to _licit_ip
    dlWritten,       \* the value of the latest assignment to __download_speed
    lastStats,       \* what the two HTTP exchanges of the latest finished stats call produced
    pcMain,          \* seed_watcher.py: position of the script
    ON_PI,           \* seed_watcher.py: RPi.GPIO could be imported
    is_licit,        \* seed_watcher.py: is_licit of the check_localisation_status generator
    statsDownloadSpeed,  \* seed_watcher.py: stats['downloadSpeed'] of the get_download_speed generator
    status,          \* seed_watcher.py: status of main
    speed            \* seed_watcher.py: speed of main

locMonVars == <<pcLocMon, licit_ip>>
locDrvVars == <<pcLocDrv, loc_ontime, loc_offtime, locSleep>>
dlMonVars == <<pcDlMon, download_speed>>
dlDrvVars == <<pcDlDrv, freq, dl_ontime, dl_offtime, dlSleep>>
locVars == <<locMonVars, locDrvVars>>
dlVars == <<dlMonVars, dlDrvVars>>
gpioVars == <<mode, level>>
histVars == <<dlSample, locCancelAt, dlCancelAt, lastLocCheck, lastDlCheck, dlChecks, locHist,
              locBeat, lastLookup, locWritten, dlWritten, lastStats>>
syncVars == <<pcMain, ON_PI, is_licit, statsDownloadSpeed, status, speed>>
vars == <<shutdown, locVars, dlVars, gpioVars, histVars, syncVars>>

\* ---------------------------------------------------------------- RPi.GPIO
\* GPIO.setup(pin, GPIO.OUT) / GPIO.setup(pin, GPIO.IN)
GpioSetup(m, pin, dir) == [m EXCEPT ![pin] = dir]
\* GPIO.output(pin, GPIO.HIGH) / GPIO.output(pin, GPIO.LOW)
GpioOutput(l, pin, val) == [l EXCEPT ![pin] = val]

\* ------------------------------------------------------- localization check
Countries == {"France", "france", "Germany", "GERMANY"}
\* str.lower()
Lower(c) ==
    CASE c \in {"France", "france"} -> "france"
      [] c \in {"Germany", "GERMANY"} -> "germany"
      [] OTHER -> c
\* forbidden_countries, as configured
ForbiddenCountries == {"France"}

\* what the ssh/curl lookup can produce
LookupOutcomes ==
    {[kind |-> k, country |-> ""] : k \in {"empty", "not_success", "malformed"}}
    \cup {[kind |-> "success", country |-> c] : c \in Countries}

\* get_ip_localisation: None, the country name, or an exception (json.loads on
\* output that is not JSON, a response without 'status' or 'data')
GetIpLocalisation(o) ==
    CASE o.kind = "empty" -> [raises |-> FALSE, loc |-> ""]
      [] o.kind = "not_success" -> [raises |-> FALSE, loc |-> ""]
      [] o.kind = "malformed" -> [raises |-> TRUE, loc |-> ""]
      [] OTHER -> [raises |-> FALSE, loc |-> o.country]

\* check_licit_ip: the exception of get_ip_localisation is not caught
CheckLicitIp(o) ==
    LET r == GetIpLocalisation(o) IN
    IF r.raises THEN [raises |-> TRUE, licit |-> FALSE]
    ELSE IF r.loc = "" THEN [raises |-> FALSE, licit |-> FALSE]
    ELSE IF Lower(r.loc) \in {Lower(c) : c \in ForbiddenCountries}
         THEN [raises |-> FALSE, licit |-> FALSE]
    ELSE [raises |-> FALSE, licit |-> TRUE]

\* no stats call has finished yet
NoStats == [kind |-> "none", speed |-> 0]

\* no lookup has finished yet
NoLookup == [kind |-> "none", country |-> ""]

\* the check failed: no country was obtained
LookupFailed(o) == o.kind # "success"

\* --------------------------------------------------------------- the state
\* a watcher that takes the address for licit until a check says otherwise
InitLicit ==
    /\ shutdown = FALSE
    /\ pcLocMon = "init"
    /\ licit_ip = TRUE
    /\ pcLocDrv = "init"
    /\ loc_ontime = NoDuration
    /\ loc_offtime = NoDuration
    /\ locSleep = NoDuration
    /\ pcDlMon = "init"
    /\ download_speed = 0
    /\ pcDlDrv = "init"
    /\ freq = 0
    /\ dl_ontime = NoDuration
    /\ dl_offtime = NoDuration
    /\ dlSleep = NoDuration
    /\ mode = [p \in Pins |-> "UNSET"]
    /\ level = [p \in Pins |-> "LOW"]
    /\ dlSample = 0
    /\ locCancelAt = "none"
    /\ dlCancelAt = "none"
    /\ lastLocCheck = "none"
    /\ lastDlCheck = "none"
    /\ dlChecks = "none"
    /\ locHist = <<>>
    /\ locBeat = 0
    /\ lastLookup = NoLookup
    /\ locWritten = TRUE
    /\ dlWritten = 0
    /\ lastStats = NoStats
    /\ pcMain = "import"
    /\ ON_PI = FALSE
    /\ is_licit = FALSE
    /\ statsDownloadSpeed = 0
    /\ status = FALSE
    /\ speed = 0

\* the state after the two objects are constructed, before any task has run
Init ==
    /\ shutdown = FALSE
    /\ pcLocMon = "init"
    /\ licit_ip = FALSE
    /\ pcLocDrv = "init"
    /\ loc_ontime = NoDuration
    /\ loc_offtime = NoDuration
    /\ locSleep = NoDuration
    /\ pcDlMon = "init"
    /\ download_speed = 0
    /\ pcDlDrv = "init"
    /\ freq = 0
    /\ dl_ontime = NoDuration
    /\ dl_offtime = NoDuration
    /\ dlSleep = NoDuration
    /\ mode = [p \in Pins |-> "UNSET"]
    /\ level = [p \in Pins |-> "LOW"]
    /\ dlSample = 0
    /\ locCancelAt = "none"
    /\ dlCancelAt = "none"
    /\ lastLocCheck = "none"
    /\ lastDlCheck = "none"
    /\ dlChecks = "none"
    /\ locHist = <<>>
    /\ locBeat = 0
    /\ lastLookup = NoLookup
    /\ locWritten = FALSE
    /\ dlWritten = 0
    /\ lastStats = NoStats
    /\ pcMain = "import"
    /\ ON_PI = FALSE
    /\ is_licit = FALSE
    /\ statsDownloadSpeed = 0
    /\ status = FALSE
    /\ speed = 0

\* ------------------------------------------------------------ event loop
\* a check made by a blocking call inside the coroutine: the event loop runs
\* no other task until the call returns
CanRunUnlessChecking ==
    /\ ~shutdown
    /\ pcLocMon # "checking"
    /\ pcDlMon # "checking"

\* a task that is ready runs unless it has been cancelled: the checks are
\* awaited (subprocess communicate, run_in_executor), so a check in progress
\* suspends its own coroutine only
CanRun == ~shutdown

\* ------------------------------------------- check_localisation_status
\* a loop that clears the flag before it calls the checker again
LocMonCallClearing ==
    /\ CanRun
    /\ pcLocMon \in {"init", "sleeping"}
    /\ pcLocMon' = "checking"
    /\ licit_ip' = FALSE
    /\ UNCHANGED <<syncVars, shutdown, locDrvVars, dlVars, gpioVars, histVars>>

\* first step of the task, or return of asyncio.sleep(self._delay):
\* the coroutine awaits localization_checker()
LocMonCall ==
    /\ CanRun
    /\ pcLocMon \in {"init", "sleeping"}
    /\ pcLocMon' = "checking"
    /\ UNCHANGED <<syncVars, shutdown, licit_ip, locDrvVars, dlVars, gpioVars, histVars>>

\* what the coroutine does with the result of the awaited check
LocMonStore(r) ==
    IF r.raises
    THEN /\ pcLocMon' = "crashed"
         /\ UNCHANGED licit_ip
    ELSE /\ licit_ip' = r.licit
         /\ pcLocMon' = "sleeping"

\* the awaited check finishes: the flag is written and the coroutine sleeps
LocMonResult ==
    /\ ~shutdown
    /\ pcLocMon = "checking"
    /\ \E o \in LookupOutcomes :
          /\ LocMonStore(CheckLicitIp(o))
          /\ lastLocCheck' = IF LookupFailed(o) THEN "failed" ELSE "ok"
          /\ lastLookup' = o
          /\ locWritten' = IF CheckLicitIp(o).raises THEN locWritten
                           ELSE CheckLicitIp(o).licit
    /\ UNCHANGED <<syncVars, shutdown, locDrvVars, dlVars, gpioVars, dlSample, locCancelAt,
                   dlCancelAt, lastDlCheck, dlWritten, lastStats, dlChecks, locHist, locBeat>>

\* CancelledError thrown into the monitor at its await (or before its first step)
LocMonCancel ==
    /\ shutdown
    /\ pcLocMon \in {"init", "checking", "sleeping"}
    /\ pcLocMon' = "cancelled"
    /\ UNCHANGED <<syncVars, shutdown, licit_ip, locDrvVars, dlVars, gpioVars, histVars>>

\* ------------------------------------------- BlinkingLocalization.blink_led
Push(h, x) ==
    IF h # <<>> /\ h[Len(h)] = x THEN h
    ELSE IF Len(h) < MaxHist THEN Append(h, x)
    ELSE Append(Tail(h), x)

\* a KO branch that lights led_ko without putting led_ok LOW first
LocLoopHeadKeepsOk(m, on) ==
    IF licit_ip
    THEN /\ level' = GpioOutput(GpioOutput(level, "led_ko", "LOW"), "led_ok", "HIGH")
         /\ pcLocDrv' = "ok_sleep"
         /\ locSleep' = on
         /\ locHist' = Push(locHist, "OK")
         /\ locBeat' = 1 - locBeat
         /\ mode' = m
    ELSE /\ level' = GpioOutput(level, "led_ko", "HIGH")
         /\ pcLocDrv' = "ko_on"
         /\ locSleep' = on
         /\ locHist' = Push(locHist, "KO")
         /\ locBeat' = 1 - locBeat
         /\ mode' = m

\* one pass of the while loop up to its first sleep
LocLoopHead(m, on) ==
    IF licit_ip
    THEN /\ level' = GpioOutput(GpioOutput(level, "led_ko", "LOW"), "led_ok", "HIGH")
         /\ pcLocDrv' = "ok_sleep"
         /\ locSleep' = on
         /\ locHist' = Push(locHist, "OK")
         /\ locBeat' = 1 - locBeat
         /\ mode' = m
    ELSE /\ level' = GpioOutput(GpioOutput(level, "led_ok", "LOW"), "led_ko", "HIGH")
         /\ pcLocDrv' = "ko_on"
         /\ locSleep' = on
         /\ locHist' = Push(locHist, "KO")
         /\ locBeat' = 1 - locBeat
         /\ mode' = m

\* an off-phase of half the on-phase
LocOfftimeHalf == [num |-> 1, den |-> 2 * LocFreqHz]

\* ontime = offtime = 1. / self._freq
LocOntime == [num |-> 1, den |-> LocFreqHz]
LocOfftime == [num |-> 1, den |-> LocFreqHz]

\* first step: the two setups, then the loop up to its first sleep
LocBlinkStart ==
    /\ CanRun
    /\ pcLocDrv = "init"
    /\ loc_ontime' = LocOntime
    /\ loc_offtime' = LocOfftime
    /\ LocLoopHead(GpioSetup(GpioSetup(mode, "led_ok", "OUT"), "led_ko", "OUT"),
                   LocOntime)
    /\ UNCHANGED <<syncVars, shutdown, locMonVars, dlVars, dlSample, locCancelAt,
                   dlCancelAt, lastLocCheck, lastLookup, locWritten, lastDlCheck, dlWritten, lastStats, dlChecks>>

\* a sleep that ends an iteration returns: next iteration
LocBlinkNext ==
    /\ CanRun
    /\ pcLocDrv \in {"ok_sleep", "ko_off"}
    /\ LocLoopHead(mode, loc_ontime)
    /\ UNCHANGED <<syncVars, shutdown, locMonVars, loc_ontime, loc_offtime, dlVars,
                   dlSample, locCancelAt, dlCancelAt, lastLocCheck, lastLookup, locWritten, lastDlCheck, dlWritten, lastStats,
                   dlChecks>>

\* the on-phase sleep of the KO branch returns: led_ko goes LOW, off-phase sleep
LocBlinkOff ==
    /\ CanRun
    /\ pcLocDrv = "ko_on"
    /\ level' = GpioOutput(level, "led_ko", "LOW")
    /\ pcLocDrv' = "ko_off"
    /\ locSleep' = loc_offtime
    /\ UNCHANGED <<syncVars, shutdown, locMonVars, loc_ontime, loc_offtime, dlVars,
                   mode, histVars>>

\* a handler that forgets led_ko
LocCancelHandlerOnlyOk(m) == GpioSetup(m, "led_ok", "IN")

\* except asyncio.CancelledError: both pins to input mode, then raise
LocCancelHandler(m) == GpioSetup(GpioSetup(m, "led_ok", "IN"), "led_ko", "IN")

\* CancelledError thrown at one of the three sleeps
LocBlinkCancel ==
    /\ shutdown
    /\ pcLocDrv \in {"ok_sleep", "ko_on", "ko_off"}
    /\ mode' = LocCancelHandler(mode)
    /\ pcLocDrv' = "cancelled"
    /\ locSleep' = NoDuration
    /\ locCancelAt' = pcLocDrv
    /\ UNCHANGED <<syncVars, shutdown, locMonVars, loc_ontime, loc_offtime, dlVars,
                   level, dlSample, dlCancelAt, lastLocCheck, lastLookup, locWritten, lastDlCheck, dlWritten, lastStats, dlChecks,
                   locHist, locBeat>>

\* the task is cancelled before its first step: asyncio throws CancelledError
\* into the coroutine before its body starts, so neither the setups nor the
\* except clause run
LocBlinkCancelUnstarted ==
    /\ shutdown
    /\ pcLocDrv = "init"
    /\ pcLocDrv' = "cancelled"
    /\ locCancelAt' = "init"
    /\ UNCHANGED <<syncVars, shutdown, locMonVars, loc_ontime, loc_offtime, locSleep,
                   dlVars, gpioVars, dlSample, dlCancelAt, lastLocCheck, lastLookup, locWritten, lastDlCheck, dlWritten, lastStats,
                   dlChecks, locHist, locBeat>>

\* --------------------------------------------------- transmission session stats
\* what the two HTTP exchanges with the daemon can produce
StatsOutcomes ==
    {[kind |-> k, speed |-> 0] :
        k \in {"no_session_id", "conn_error", "bad_status", "bad_json",
               "no_arguments", "no_speed"}}
    \cup {[kind |-> "stats", speed |-> s] : s \in Speeds}

\* get_transmision_session_stats: None (no header, status other than 200, no
\* 'arguments'), the arguments, or an exception that is not caught (the request
\* itself fails, the body is not JSON)
GetTransmisionSessionStats(o) ==
    CASE o.kind \in {"no_session_id", "bad_status", "no_arguments"} ->
            [raises |-> FALSE, none |-> TRUE, hasSpeed |-> FALSE, speed |-> 0]
      [] o.kind \in {"conn_error", "bad_json"} ->
            [raises |-> TRUE, none |-> TRUE, hasSpeed |-> FALSE, speed |-> 0]
      [] o.kind = "no_speed" ->
            [raises |-> FALSE, none |-> FALSE, hasSpeed |-> FALSE, speed |-> 0]
      [] OTHER ->
            [raises |-> FALSE, none |-> FALSE, hasSpeed |-> TRUE, speed |-> o.speed]

\* the stats call failed: no download speed was obtained
StatsFailed(o) == o.kind # "stats"

\* ------------------------------------- BlinkingDownloadSpeed.get_download_speed
\* a fallback that reports an 'undefined' sentinel instead of 0
DSpeedSentinel(stats) ==
    IF stats.none THEN -1
    ELSE IF stats.hasSpeed THEN stats.speed
    ELSE -1

\* d_speed: 0 when stats is None or has no 'downloadSpeed'
DSpeed(stats) ==
    IF stats.none THEN 0
    ELSE IF stats.hasSpeed THEN stats.speed
    ELSE 0

\* first step of the task, or return of asyncio.sleep(self._delay):
\* the coroutine awaits get_transmision_session_stats
DlMonCall ==
    /\ CanRun
    /\ pcDlMon \in {"init", "sleeping"}
    /\ pcDlMon' = "checking"
    /\ UNCHANGED <<syncVars, shutdown, locVars, download_speed, dlDrvVars, gpioVars, histVars>>

\* what the coroutine does with the result of the awaited stats call
DlMonStore(r) ==
    IF r.raises
    THEN /\ pcDlMon' = "crashed"
         /\ UNCHANGED download_speed
    ELSE /\ download_speed' = DSpeed(r)
         /\ pcDlMon' = "sleeping"

\* the awaited stats call finishes: the speed is written and the coroutine sleeps
DlMonResult ==
    /\ ~shutdown
    /\ pcDlMon = "checking"
    /\ \E o \in StatsOutcomes :
          /\ DlMonStore(GetTransmisionSessionStats(o))
          /\ lastDlCheck' = IF StatsFailed(o) THEN "failed" ELSE "ok"
          /\ dlChecks' = IF StatsFailed(o) /\ dlChecks # "mixed"
                         THEN "allfailed" ELSE "mixed"
          /\ lastStats' = o
          /\ dlWritten' = IF GetTransmisionSessionStats(o).raises THEN dlWritten
                          ELSE DSpeed(GetTransmisionSessionStats(o))
    /\ UNCHANGED <<syncVars, shutdown, locVars, dlDrvVars, gpioVars, dlSample, locCancelAt,
                   dlCancelAt, lastLocCheck, lastLookup, locWritten, locHist, locBeat>>

\* CancelledError thrown into the monitor at its await (or before its first step)
DlMonCancel ==
    /\ shutdown
    /\ pcDlMon \in {"init", "checking", "sleeping"}
    /\ pcDlMon' = "cancelled"
    /\ UNCHANGED <<syncVars, shutdown, locVars, download_speed, dlDrvVars, gpioVars, histVars>>

\* ------------------------------------------ BlinkingDownloadSpeed.blink_led
\* a frequency that follows the speed only while the address is licit
FreqGatedByFlag(s) ==
    LET freq_min == FreqMinHalfHz * DSpeedMax IN
    IF s # 0 /\ licit_ip THEN freq_min + (FreqMaxHalfHz - FreqMinHalfHz) * s
    ELSE freq_min

\* a frequency proportional to the speed, without the freq_min offset
FreqProportional(s) == FreqMaxHalfHz * s

\* the slope taken as freq_max / d_speed_max
FreqSlopeMax(s) ==
    LET freq_min == FreqMinHalfHz * DSpeedMax IN
    IF s # 0 THEN freq_min + FreqMaxHalfHz * s
    ELSE freq_min

\* freq = freq_min; if self.__download_speed: freq += (freq_max - freq_min) /
\* d_speed_max * self.__download_speed        (in units of 1/FreqDen hertz)
Freq(s) ==
    LET freq_min == FreqMinHalfHz * DSpeedMax IN
    IF s # 0 THEN freq_min + (FreqMaxHalfHz - FreqMinHalfHz) * s
    ELSE freq_min

\* ontime = offtime = 1. / freq
Period(f) == [num |-> FreqDen, den |-> f]

\* a loop that keeps using the speed it read first
DlLoopHeadCached(m) ==
    /\ freq' = Freq(dlSample)
    /\ dl_ontime' = Period(freq')
    /\ dl_offtime' = Period(freq')
    /\ level' = GpioOutput(level, "led", "HIGH")
    /\ dlSleep' = dl_ontime'
    /\ pcDlDrv' = "high"
    /\ dlSample' = dlSample
    /\ mode' = m

\* one pass of the while loop up to its first sleep
DlLoopHead(m) ==
    /\ freq' = Freq(download_speed)
    /\ dl_ontime' = Period(freq')
    /\ dl_offtime' = Period(freq')
    /\ level' = GpioOutput(level, "led", "HIGH")
    /\ dlSleep' = dl_ontime'
    /\ pcDlDrv' = "high"
    /\ dlSample' = download_speed
    /\ mode' = m

\* first step: the setup, then the loop up to its first sleep
DlBlinkStart ==
    /\ CanRun
    /\ pcDlDrv = "init"
    /\ DlLoopHead(GpioSetup(mode, "led", "OUT"))
    /\ UNCHANGED <<syncVars, shutdown, locVars, dlMonVars, locCancelAt, dlCancelAt,
                   lastLocCheck, lastLookup, locWritten, lastDlCheck, dlWritten, lastStats, dlChecks, locHist, locBeat>>

\* the off-phase sleep returns: next cycle
DlBlinkNext ==
    /\ CanRun
    /\ pcDlDrv = "low"
    /\ DlLoopHead(mode)
    /\ UNCHANGED <<syncVars, shutdown, locVars, dlMonVars, locCancelAt, dlCancelAt,
                   lastLocCheck, lastLookup, locWritten, lastDlCheck, dlWritten, lastStats, dlChecks, locHist, locBeat>>

\* an off-phase recomputed from the speed as it is now
DlOffSleepResampled == Period(Freq(download_speed))

\* await asyncio.sleep(offtime): the offtime computed at the start of the cycle
DlOffSleep == dl_offtime

\* the on-phase sleep returns: the led goes LOW, off-phase sleep
DlBlinkLow ==
    /\ CanRun
    /\ pcDlDrv = "high"
    /\ level' = GpioOutput(level, "led", "LOW")
    /\ dlSleep' = DlOffSleep
    /\ pcDlDrv' = "low"
    /\ UNCHANGED <<syncVars, shutdown, locVars, dlMonVars, freq, dl_ontime, dl_offtime, mode,
                   histVars>>

\* a handler that only swallows the exception
DlCancelHandlerPass(m) == m

\* except asyncio.CancelledError: the pin to input mode (no re-raise)
DlCancelHandler(m) == GpioSetup(m, "led", "IN")

\* CancelledError thrown at one of the two sleeps
DlBlinkCancel ==
    /\ shutdown
    /\ pcDlDrv \in {"high", "low"}
    /\ mode' = DlCancelHandler(mode)
    /\ pcDlDrv' = "returned"
    /\ dlSleep' = NoDuration
    /\ dlCancelAt' = pcDlDrv
    /\ UNCHANGED <<syncVars, shutdown, locVars, dlMonVars, freq, dl_ontime, dl_offtime, level,
                   dlSample, locCancelAt, lastLocCheck, lastLookup, locWritten, lastDlCheck, dlWritten, lastStats, dlChecks, locHist, locBeat>>

\* the task is cancelled before its first step: the body never starts
DlBlinkCancelUnstarted ==
    /\ shutdown
    /\ pcDlDrv = "init"
    /\ pcDlDrv' = "cancelled"
    /\ dlCancelAt' = "init"
    /\ UNCHANGED <<syncVars, shutdown, locVars, dlMonVars, freq, dl_ontime, dl_offtime, dlSleep,
                   gpioVars, dlSample, locCancelAt, lastLocCheck, lastLookup, locWritten, lastDlCheck, dlWritten, lastStats,
                   dlChecks, locHist, locBeat>>

\* ------------------------------------------------------------- supervisor
\* shutdown: cancel() on the four tasks
Shutdown ==
    /\ ~shutdown
    /\ shutdown' = TRUE
    /\ UNCHANGED <<syncVars, locVars, dlVars, gpioVars, histVars>>

Next ==
    \/ LocMonCall
    \/ LocMonResult
    \/ LocMonCancel
    \/ LocBlinkStart
    \/ LocBlinkNext
    \/ LocBlinkOff
    \/ LocBlinkCancel
    \/ LocBlinkCancelUnstarted
    \/ DlMonCall
    \/ DlMonResult
    \/ DlMonCancel
    \/ DlBlinkStart
    \/ DlBlinkNext
    \/ DlBlinkLow
    \/ DlBlinkCancel
    \/ DlBlinkCancelUnstarted
    \/ Shutdown

Spec == Init /\ [][Next]_vars

\* the program while the supervisor does not shut it down
RunNext ==
    \/ LocMonCall
    \/ LocMonResult
    \/ LocBlinkStart
    \/ LocBlinkNext
    \/ LocBlinkOff
    \/ DlMonCall
    \/ DlMonResult
    \/ DlBlinkStart
    \/ DlBlinkNext
    \/ DlBlinkLow

\* the event loop runs every task whose sleep has ended; nothing is assumed
\* about when, or whether, an awaited check returns
LoopFairness ==
    /\ WF_vars(LocMonCall)
    /\ WF_vars(LocBlinkStart)
    /\ WF_vars(LocBlinkNext)
    /\ WF_vars(LocBlinkOff)
    /\ WF_vars(DlMonCall)
    /\ WF_vars(DlBlinkStart)
    /\ WF_vars(DlBlinkNext)
    /\ WF_vars(DlBlinkLow)

FairSpec == Init /\ [][RunNext]_vars /\ LoopFairness

\* ============================================ the first asyncio version
\* src/localization.py and src/transmission.py at the top of the repository:
\* the same four coroutines, with a fixed list of licit countries, fixed
\* on-times and their own handling of a failed check

\* ('Germany', 'Netherlands')
LegacyLicitCountries == {"Germany", "Netherlands"}

\* get_ip_localisation: as the later version, but the branch for an empty
\* output prints to sys.stderr in a module that does not import sys
LegacyGetIpLocalisation(o) ==
    CASE o.kind = "empty" -> [raises |-> TRUE, loc |-> ""]
      [] o.kind = "not_success" -> [raises |-> FALSE, loc |-> ""]
      [] o.kind = "malformed" -> [raises |-> TRUE, loc |-> ""]
      [] OTHER -> [raises |-> FALSE, loc |-> o.country]

\* check_licit_ip: not loc or loc not in ('Germany', 'Netherlands')
LegacyCheckLicitIp(o) ==
    LET r == LegacyGetIpLocalisation(o) IN
    IF r.raises THEN [raises |-> TRUE, licit |-> FALSE]
    ELSE IF r.loc = "" \/ r.loc \notin LegacyLicitCountries
         THEN [raises |-> FALSE, licit |-> FALSE]
    ELSE [raises |-> FALSE, licit |-> TRUE]

\* check_localisation_status: the call of the check
LegacyLocMonCall ==
    /\ CanRun
    /\ pcLocMon \in {"init", "sleeping"}
    /\ pcLocMon' = "checking"
    /\ UNCHANGED <<syncVars, shutdown, licit_ip, locDrvVars, dlVars, gpioVars, histVars>>

\* check_localisation_status: the check returns, the flag is written, sleep
LegacyLocMonResult ==
    /\ ~shutdown
    /\ pcLocMon = "checking"
    /\ \E o \in LookupOutcomes :
          LET r == LegacyCheckLicitIp(o) IN
          /\ IF r.raises
             THEN /\ pcLocMon' = "crashed"
                  /\ UNCHANGED <<licit_ip, locWritten>>
             ELSE /\ licit_ip' = r.licit
                  /\ locWritten' = r.licit
                  /\ pcLocMon' = "sleeping"
          /\ lastLocCheck' = IF LookupFailed(o) THEN "failed" ELSE "ok"
          /\ lastLookup' = o
    /\ UNCHANGED <<syncVars, shutdown, locDrvVars, dlVars, gpioVars, dlSample, locCancelAt,
                   dlCancelAt, lastDlCheck, dlWritten, lastStats, dlChecks, locHist,
                   locBeat>>

LegacyLocMonCancel ==
    /\ shutdown
    /\ pcLocMon \in {"init", "checking", "sleeping"}
    /\ pcLocMon' = "cancelled"
    /\ UNCHANGED <<syncVars, shutdown, licit_ip, locDrvVars, dlVars, gpioVars, histVars>>

\* ontime = 0.5, offtime = 0.5
LegacyLocOntime == [num |-> 1, den |-> 2]
LegacyLocOfftime == [num |-> 1, den |-> 2]

\* blink_led: one pass of the while loop up to its first sleep
LegacyLocLoopHead(m) ==
    /\ IF licit_ip
       THEN /\ level' = GpioOutput(level, "led_ok", "HIGH")
            /\ pcLocDrv' = "ok_on"
            /\ locHist' = Push(locHist, "OK")
       ELSE /\ level' = GpioOutput(level, "led_ko", "HIGH")
            /\ pcLocDrv' = "ko_on"
            /\ locHist' = Push(locHist, "KO")
    /\ locSleep' = LegacyLocOntime
    /\ locBeat' = 1 - locBeat
    /\ mode' = m

LegacyLocBlinkStart ==
    /\ CanRun
    /\ pcLocDrv = "init"
    /\ loc_ontime' = LegacyLocOntime
    /\ loc_offtime' = LegacyLocOfftime
    /\ LegacyLocLoopHead(GpioSetup(GpioSetup(mode, "led_ok", "OUT"), "led_ko", "OUT"))
    /\ UNCHANGED <<syncVars, shutdown, locMonVars, dlVars, dlSample, locCancelAt, dlCancelAt,
                   lastLocCheck, lastLookup, locWritten, lastDlCheck, dlWritten,
                   lastStats, dlChecks>>

\* the on-phase sleep returns: the lit led goes LOW, off-phase sleep
LegacyLocBlinkOff ==
    /\ CanRun
    /\ pcLocDrv \in {"ok_on", "ko_on"}
    /\ level' = GpioOutput(level, IF pcLocDrv = "ok_on" THEN "led_ok" ELSE "led_ko",
                           "LOW")
    /\ pcLocDrv' = IF pcLocDrv = "ok_on" THEN "ok_off" ELSE "ko_off"
    /\ locSleep' = LegacyLocOfftime
    /\ UNCHANGED <<syncVars, shutdown, locMonVars, loc_ontime, loc_offtime, dlVars, mode,
                   histVars>>

\* the off-phase sleep returns: next iteration
LegacyLocBlinkNext ==
    /\ CanRun
    /\ pcLocDrv \in {"ok_off", "ko_off"}
    /\ LegacyLocLoopHead(mode)
    /\ UNCHANGED <<syncVars, shutdown, locMonVars, loc_ontime, loc_offtime, dlVars, dlSample,
                   locCancelAt, dlCancelAt, lastLocCheck, lastLookup, locWritten,
                   lastDlCheck, dlWritten, lastStats, dlChecks>>

\* except asyncio.CancelledError: both pins to input mode, no raise
LegacyLocBlinkCancel ==
    /\ shutdown
    /\ pcLocDrv \in {"ok_on", "ok_off", "ko_on", "ko_off"}
    /\ mode' = GpioSetup(GpioSetup(mode, "led_ok", "IN"), "led_ko", "IN")
    /\ pcLocDrv' = "returned"
    /\ locSleep' = NoDuration
    /\ locCancelAt' = pcLocDrv
    /\ UNCHANGED <<syncVars, shutdown, locMonVars, loc_ontime, loc_offtime, dlVars, level,
                   dlSample, dlCancelAt, lastLocCheck, lastLookup, locWritten,
                   lastDlCheck, dlWritten, lastStats, dlChecks, locHist, locBeat>>

LegacyLocBlinkCancelUnstarted ==
    /\ shutdown
    /\ pcLocDrv = "init"
    /\ pcLocDrv' = "cancelled"
    /\ locCancelAt' = "init"
    /\ UNCHANGED <<syncVars, shutdown, locMonVars, loc_ontime, loc_offtime, locSleep, dlVars,
                   gpioVars, dlSample, dlCancelAt, lastLocCheck, lastLookup,
                   locWritten, lastDlCheck, dlWritten, lastStats, dlChecks, locHist,
                   locBeat>>

\* get_transmision_session_stats: None (no header, status other than 200, no
\* 'arguments'), the arguments, or an exception that is not caught
LegacyGetTransmisionSessionStats(o) ==
    CASE o.kind \in {"no_session_id", "bad_status", "no_arguments"} ->
            [raises |-> FALSE, none |-> TRUE, hasSpeed |-> FALSE, speed |-> 0]
      [] o.kind \in {"conn_error", "bad_json"} ->
            [raises |-> TRUE, none |-> TRUE, hasSpeed |-> FALSE, speed |-> 0]
      [] o.kind = "no_speed" ->
            [raises |-> FALSE, none |-> FALSE, hasSpeed |-> FALSE, speed |-> 0]
      [] OTHER ->
            [raises |-> FALSE, none |-> FALSE, hasSpeed |-> TRUE, speed |-> o.speed]

\* get_download_speed: 'if stats is None: d_speed = 0.' has no else, so the
\* try that follows subscripts None: TypeError, and only KeyError is caught
LegacyDSpeed(stats) ==
    IF stats.none THEN [raises |-> TRUE, speed |-> 0]
    ELSE IF stats.hasSpeed THEN [raises |-> FALSE, speed |-> stats.speed]
    ELSE [raises |-> FALSE, speed |-> 0]

LegacyDlMonCall ==
    /\ CanRun
    /\ pcDlMon \in {"init", "sleeping"}
    /\ pcDlMon' = "checking"
    /\ UNCHANGED <<syncVars, shutdown, locVars, download_speed, dlDrvVars, gpioVars, histVars>>

\* the stats call returns: d_speed is computed and stored, then the sleep
LegacyDlMonResult ==
    /\ ~shutdown
    /\ pcDlMon = "checking"
    /\ \E o \in StatsOutcomes :
          LET stats == LegacyGetTransmisionSessionStats(o)
              d == LegacyDSpeed(stats)
          IN
          /\ IF stats.raises \/ d.raises
             THEN /\ pcDlMon' = "crashed"
                  /\ UNCHANGED <<download_speed, dlWritten>>
             ELSE /\ download_speed' = d.speed
                  /\ dlWritten' = d.speed
                  /\ pcDlMon' = "sleeping"
          /\ lastDlCheck' = IF StatsFailed(o) THEN "failed" ELSE "ok"
          /\ dlChecks' = IF StatsFailed(o) /\ dlChecks # "mixed"
                         THEN "allfailed" ELSE "mixed"
          /\ lastStats' = o
    /\ UNCHANGED <<syncVars, shutdown, locVars, dlDrvVars, gpioVars, dlSample, locCancelAt,
                   dlCancelAt, lastLocCheck, lastLookup, locWritten, locHist, locBeat>>

LegacyDlMonCancel ==
    /\ shutdown
    /\ pcDlMon \in {"init", "checking", "sleeping"}
    /\ pcDlMon' = "cancelled"
    /\ UNCHANGED <<syncVars, shutdown, locVars, download_speed, dlDrvVars, gpioVars, histVars>>

\* ontime = 0.5
LegacyDlOntime == [num |-> 1, den |-> 2]

\* offtime = d_speed_max / self.__download_speed * ontime, else 100 * ontime
LegacyDlOfftime(s) ==
    IF s # 0 THEN [num |-> DSpeedMax, den |-> 2 * s]
    ELSE [num |-> 100, den |-> 2]

\* blink_led: one pass of the while loop up to its first sleep
LegacyDlLoopHead(m) ==
    /\ dl_ontime' = LegacyDlOntime
    /\ dl_offtime' = LegacyDlOfftime(download_speed)
    /\ level' = GpioOutput(level, "led", "HIGH")
    /\ dlSleep' = LegacyDlOntime
    /\ pcDlDrv' = "high"
    /\ dlSample' = download_speed
    /\ mode' = m

LegacyDlBlinkStart ==
    /\ CanRun
    /\ pcDlDrv = "init"
    /\ LegacyDlLoopHead(GpioSetup(mode, "led", "OUT"))
    /\ UNCHANGED <<syncVars, shutdown, locVars, dlMonVars, freq, locCancelAt, dlCancelAt,
                   lastLocCheck, lastLookup, locWritten, lastDlCheck, dlWritten,
                   lastStats, dlChecks, locHist, locBeat>>

\* the off-phase sleep returns: next cycle
LegacyDlBlinkNext ==
    /\ CanRun
    /\ pcDlDrv = "low"
    /\ LegacyDlLoopHead(mode)
    /\ UNCHANGED <<syncVars, shutdown, locVars, dlMonVars, freq, locCancelAt, dlCancelAt,
                   lastLocCheck, lastLookup, locWritten, lastDlCheck, dlWritten,
                   lastStats, dlChecks, locHist, locBeat>>

\* the on-phase sleep returns: the led goes LOW, off-phase sleep
LegacyDlBlinkLow ==
    /\ CanRun
    /\ pcDlDrv = "high"
    /\ level' = GpioOutput(level, "led", "LOW")
    /\ dlSleep' = dl_offtime
    /\ pcDlDrv' = "low"
    /\ UNCHANGED <<syncVars, shutdown, locVars, dlMonVars, freq, dl_ontime, dl_offtime, mode,
                   histVars>>

\* except asyncio.CancelledError: the pin to input mode
LegacyDlBlinkCancel ==
    /\ shutdown
    /\ pcDlDrv \in {"high", "low"}
    /\ mode' = GpioSetup(mode, "led", "IN")
    /\ pcDlDrv' = "returned"
    /\ dlSleep' = NoDuration
    /\ dlCancelAt' = pcDlDrv
    /\ UNCHANGED <<syncVars, shutdown, locVars, dlMonVars, freq, dl_ontime, dl_offtime, level,
                   dlSample, locCancelAt, lastLocCheck, lastLookup, locWritten,
                   lastDlCheck, dlWritten, lastStats, dlChecks, locHist, locBeat>>

LegacyDlBlinkCancelUnstarted ==
    /\ shutdown
    /\ pcDlDrv = "init"
    /\ pcDlDrv' = "cancelled"
    /\ dlCancelAt' = "init"
    /\ UNCHANGED <<syncVars, shutdown, locVars, dlMonVars, freq, dl_ontime, dl_offtime, dlSleep,
                   gpioVars, dlSample, locCancelAt, lastLocCheck, lastLookup,
                   locWritten, lastDlCheck, dlWritten, lastStats, dlChecks, locHist,
                   locBeat>>

LegacyNext ==
    \/ LegacyLocMonCall
    \/ LegacyLocMonResult
    \/ LegacyLocMonCancel
    \/ LegacyLocBlinkStart
    \/ LegacyLocBlinkOff
    \/ LegacyLocBlinkNext
    \/ LegacyLocBlinkCancel
    \/ LegacyLocBlinkCancelUnstarted
    \/ LegacyDlMonCall
    \/ LegacyDlMonResult
    \/ LegacyDlMonCancel
    \/ LegacyDlBlinkStart
    \/ LegacyDlBlinkNext
    \/ LegacyDlBlinkLow
    \/ LegacyDlBlinkCancel
    \/ LegacyDlBlinkCancelUnstarted
    \/ Shutdown

LegacySpec == Init /\ [][LegacyNext]_vars

\* ================================================== the synchronous script
\* src/seed_watcher.py: one thread; main polls two generators and drives the
\* three pins itself

\* where the script is while main runs
SyncRunning ==
    {"config", "loc_first", "speed_first", "gpio_init", "send_loc", "send_speed",
     "show_loc", "show_download", "sleep"}

\* ended by an exception that nothing catches
SyncCrashed == {"exception", "stop_iteration", "gpio_error"}

\* what check_output of the ssh/curl command can produce: the outcomes of the
\* lookup, or a non-zero exit status
SyncLookupOutcomes ==
    LookupOutcomes \cup {[kind |-> "process_error", country |-> ""]}

\* get_ip_localisation: None on CalledProcessError and on a status other than
\* 'success'; json.loads raises on an empty or malformed output
SyncGetIpLocalisation(o) ==
    CASE o.kind = "process_error" -> [raises |-> FALSE, loc |-> ""]
      [] o.kind = "empty" -> [raises |-> TRUE, loc |-> ""]
      [] o.kind = "not_success" -> [raises |-> FALSE, loc |-> ""]
      [] o.kind = "malformed" -> [raises |-> TRUE, loc |-> ""]
      [] OTHER -> [raises |-> FALSE, loc |-> o.country]

\* check_licit_ip: not loc or loc not in ('Germany', 'Netherlands')
SyncCheckLicitIp(o) ==
    LET r == SyncGetIpLocalisation(o) IN
    IF r.raises THEN [raises |-> TRUE, licit |-> FALSE]
    ELSE IF r.loc = "" \/ r.loc \notin {"Germany", "Netherlands"}
         THEN [raises |-> FALSE, licit |-> FALSE]
    ELSE [raises |-> FALSE, licit |-> TRUE]

\* get_transmision_session_stats: None (no header, status other than 200, no
\* 'arguments'), the arguments, or an exception that is not caught
SyncGetTransmisionSessionStats(o) ==
    CASE o.kind \in {"no_session_id", "bad_status", "no_arguments"} ->
            [raises |-> FALSE, none |-> TRUE, hasSpeed |-> FALSE, speed |-> 0]
      [] o.kind \in {"conn_error", "bad_json"} ->
            [raises |-> TRUE, none |-> TRUE, hasSpeed |-> FALSE, speed |-> 0]
      [] o.kind = "no_speed" ->
            [raises |-> FALSE, none |-> FALSE, hasSpeed |-> FALSE, speed |-> 0]
      [] OTHER ->
            [raises |-> FALSE, none |-> FALSE, hasSpeed |-> TRUE, speed |-> o.speed]

\* get_download_speed, from a call of get_transmision_session_stats to the
\* next yield: 'if not stats: return None' ends the generator, so next() or
\* send() raises StopIteration; stats without 'downloadSpeed' is a KeyError
SyncSpeedStep(o) ==
    LET stats == SyncGetTransmisionSessionStats(o) IN
    IF stats.raises THEN [pc |-> "exception", speed |-> 0]
    ELSE IF stats.none THEN [pc |-> "stop_iteration", speed |-> 0]
    ELSE IF ~stats.hasSpeed THEN [pc |-> "exception", speed |-> 0]
    ELSE [pc |-> "yield", speed |-> stats.speed]

\* GPIO.output raises RuntimeError on a channel that is not set up as output
GpioIsOutput(m, pin) == m[pin] = "OUT"

\* initialize_gpio: setup as output, and LOW if the pin reads high
InitializeGpioMode(m, led) == GpioSetup(m, led, "OUT")
InitializeGpioLevel(l, led) == GpioOutput(l, led, "LOW")

\* try: import RPi.GPIO as GPIO
SyncImport ==
    /\ pcMain = "import"
    /\ ON_PI' \in BOOLEAN
    /\ pcMain' = "config"
    /\ UNCHANGED <<shutdown, locVars, dlVars, gpioVars, histVars, is_licit,
                   statsDownloadSpeed, status, speed>>

\* main: read_config and the eight parameters; sys.exit(1) without the file,
\* sys.exit(2) without one of the parameters
SyncReadConfig ==
    /\ pcMain = "config"
    /\ pcMain' \in {"exit_1", "exit_2", "loc_first"}
    /\ UNCHANGED <<shutdown, locVars, dlVars, gpioVars, histVars, ON_PI, is_licit,
                   statsDownloadSpeed, status, speed>>

\* next(gen_loc_status): the generator runs its first check and yields
SyncLocFirst ==
    /\ pcMain = "loc_first"
    /\ \E o \in SyncLookupOutcomes :
          LET r == SyncCheckLicitIp(o) IN
          /\ IF r.raises
             THEN /\ pcMain' = "exception"
                  /\ UNCHANGED is_licit
             ELSE /\ pcMain' = "speed_first"
                  /\ is_licit' = r.licit
          /\ lastLookup' = o
    /\ UNCHANGED <<shutdown, locVars, dlVars, gpioVars, dlSample, locCancelAt,
                   dlCancelAt, lastLocCheck, lastDlCheck, dlChecks, locHist, locBeat,
                   locWritten, dlWritten, lastStats, ON_PI, statsDownloadSpeed,
                   status, speed>>

\* next(gen_speed_ret): the generator asks for the stats and yields
SyncSpeedFirst ==
    /\ pcMain = "speed_first"
    /\ \E o \in StatsOutcomes :
          LET g == SyncSpeedStep(o) IN
          /\ IF g.pc = "yield"
             THEN /\ pcMain' = "gpio_init"
                  /\ statsDownloadSpeed' = g.speed
             ELSE /\ pcMain' = g.pc
                  /\ UNCHANGED statsDownloadSpeed
          /\ lastStats' = o
    /\ UNCHANGED <<shutdown, locVars, dlVars, gpioVars, dlSample, locCancelAt,
                   dlCancelAt, lastLocCheck, lastDlCheck, dlChecks, locHist, locBeat,
                   lastLookup, locWritten, dlWritten, ON_PI, is_licit, status, speed>>

\* if ON_PI: initialize_gpio(pin_loc_ok); initialize_gpio(pin_loc_ko)
SyncGpioInit ==
    /\ pcMain = "gpio_init"
    /\ IF ON_PI
       THEN /\ mode' = InitializeGpioMode(InitializeGpioMode(mode, "led_ok"), "led_ko")
            /\ level' = InitializeGpioLevel(InitializeGpioLevel(level, "led_ok"),
                                            "led_ko")
       ELSE UNCHANGED <<mode, level>>
    /\ pcMain' = "send_loc"
    /\ UNCHANGED <<shutdown, locVars, dlVars, histVars, ON_PI, is_licit,
                   statsDownloadSpeed, status, speed>>

\* status = gen_loc_status.send(current_time): the generator checks again
\* when current_time is in a new period of delay seconds, and yields is_licit
SyncSendLoc ==
    /\ pcMain = "send_loc"
    /\ \/ /\ status' = is_licit
          /\ pcMain' = "send_speed"
          /\ UNCHANGED <<is_licit, lastLookup>>
       \/ \E o \in SyncLookupOutcomes :
             LET r == SyncCheckLicitIp(o) IN
             /\ IF r.raises
                THEN /\ pcMain' = "exception"
                     /\ UNCHANGED <<is_licit, status>>
                ELSE /\ pcMain' = "send_speed"
                     /\ is_licit' = r.licit
                     /\ status' = r.licit
             /\ lastLookup' = o
    /\ UNCHANGED <<shutdown, locVars, dlVars, gpioVars, dlSample, locCancelAt,
                   dlCancelAt, lastLocCheck, lastDlCheck, dlChecks, locHist, locBeat,
                   locWritten, dlWritten, lastStats, ON_PI, statsDownloadSpeed, speed>>

\* speed = gen_speed_ret.send(current_time): the generator asks for the stats
\* again when current_time is in a new period, and yields stats['downloadSpeed']
SyncSendSpeed ==
    /\ pcMain = "send_speed"
    /\ \/ /\ speed' = statsDownloadSpeed
          /\ pcMain' = "show_loc"
          /\ UNCHANGED <<statsDownloadSpeed, lastStats>>
       \/ \E o \in StatsOutcomes :
             LET g == SyncSpeedStep(o) IN
             /\ IF g.pc = "yield"
                THEN /\ pcMain' = "show_loc"
                     /\ statsDownloadSpeed' = g.speed
                     /\ speed' = g.speed
                ELSE /\ pcMain' = g.pc
                     /\ UNCHANGED <<statsDownloadSpeed, speed>>
             /\ lastStats' = o
    /\ UNCHANGED <<shutdown, locVars, dlVars, gpioVars, dlSample, locCancelAt,
                   dlCancelAt, lastLocCheck, lastDlCheck, dlChecks, locHist, locBeat,
                   lastLookup, locWritten, dlWritten, ON_PI, is_licit, status>>

\* if status: pin_loc_ok HIGH, pin_loc_ko LOW; else: pin_loc_ko HIGH, pin_loc_ok LOW
SyncShowLoc ==
    /\ pcMain = "show_loc"
    /\ IF ~ON_PI
       THEN /\ pcMain' = "show_download"
            /\ UNCHANGED level
       ELSE IF GpioIsOutput(mode, "led_ok") /\ GpioIsOutput(mode, "led_ko")
       THEN /\ pcMain' = "show_download"
            /\ level' = IF status
                        THEN GpioOutput(GpioOutput(level, "led_ok", "HIGH"),
                                        "led_ko", "LOW")
                        ELSE GpioOutput(GpioOutput(level, "led_ko", "HIGH"),
                                        "led_ok", "LOW")
       ELSE /\ pcMain' = "gpio_error"
            /\ UNCHANGED level
    /\ UNCHANGED <<shutdown, locVars, dlVars, mode, histVars, ON_PI, is_licit,
                   statsDownloadSpeed, status, speed>>

\* if speed: pin_download HIGH; else: pin_download LOW
SyncShowDownload ==
    /\ pcMain = "show_download"
    /\ IF ~ON_PI
       THEN /\ pcMain' = "sleep"
            /\ UNCHANGED level
       ELSE IF GpioIsOutput(mode, "led")
       THEN /\ pcMain' = "sleep"
            /\ level' = GpioOutput(level, "led", IF speed # 0 THEN "HIGH" ELSE "LOW")
       ELSE /\ pcMain' = "gpio_error"
            /\ UNCHANGED level
    /\ UNCHANGED <<shutdown, locVars, dlVars, mode, histVars, ON_PI, is_licit,
                   statsDownloadSpeed, status, speed>>

\* time.sleep(time_delta) returns: next pass of 'while True'
SyncSleep ==
    /\ pcMain = "sleep"
    /\ pcMain' = "send_loc"
    /\ UNCHANGED <<shutdown, locVars, dlVars, gpioVars, histVars, ON_PI, is_licit,
                   statsDownloadSpeed, status, speed>>

\* KeyboardInterrupt while main runs: 'except KeyboardInterrupt' prints and
\* calls sys.exit(0), so the GPIO.cleanup() after the try is not reached
SyncInterrupt ==
    /\ pcMain \in SyncRunning
    /\ pcMain' = "exit_0"
    /\ UNCHANGED <<shutdown, locVars, dlVars, gpioVars, histVars, ON_PI, is_licit,
                   statsDownloadSpeed, status, speed>>

SyncNext ==
    \/ SyncImport
    \/ SyncReadConfig
    \/ SyncLocFirst
    \/ SyncSpeedFirst
    \/ SyncGpioInit
    \/ SyncSendLoc
    \/ SyncSendSpeed
    \/ SyncShowLoc
    \/ SyncShowDownload
    \/ SyncSleep
    \/ SyncInterrupt

SyncSpec == Init /\ [][SyncNext]_vars

\* ================================================================ properties
LocSleeps == {"ok_sleep", "ko_on", "ko_off"}
DlSleeps == {"high", "low"}
Stopped == {"cancelled", "returned", "crashed"}
AllFinished ==
    /\ pcLocMon \in Stopped
    /\ pcLocDrv \in Stopped
    /\ pcDlMon \in Stopped
    /\ pcDlDrv \in Stopped

\* frequencies of the claims, in units of 1/FreqDen hertz
HalfHz == FreqDen \div 2
Hz(n) == n * FreqDen
\* the duration d is n hundredths of a second
IsCentiSeconds(d, n) == d.num * 100 = n * d.den

\* C1: once the four tasks have finished after a shutdown, whenever it came,
\* every LED pin has been put back to input mode.
C1_AllPinsReleased ==
    (shutdown /\ AllFinished) => \A p \in Pins : mode[p] = "IN"

\* C2: a cancellation delivered at any of the three sleeps of the localization
\* blink_led sets led_ok and led_ko to input mode as the coroutine exits, and
\* nothing is done to either pin afterwards.
C2_LocCancelReleases ==
    /\ [][(shutdown /\ pcLocDrv \in LocSleeps /\ pcLocDrv' # pcLocDrv)
            => /\ pcLocDrv' = "cancelled"
               /\ mode'["led_ok"] = "IN"
               /\ mode'["led_ko"] = "IN"
               /\ level' = level]_vars
    /\ [][pcLocDrv = "cancelled"
            => /\ pcLocDrv' = "cancelled"
               /\ mode'["led_ok"] = mode["led_ok"]
               /\ mode'["led_ko"] = mode["led_ko"]
               /\ level'["led_ok"] = level["led_ok"]
               /\ level'["led_ko"] = level["led_ko"]]_vars

\* C2 happens: cancelled in the KO on-phase, with led_ko latched HIGH, both released
C2_Witness ==
    /\ pcLocDrv = "cancelled"
    /\ locCancelAt = "ko_on"
    /\ level["led_ko"] = "HIGH"
    /\ mode["led_ok"] = "IN"
    /\ mode["led_ko"] = "IN"

\* C3: a cancellation delivered in the HIGH or the LOW phase of the download
\* blink_led sets the pin to input mode as the next action of the driver, the
\* driver terminates, and the pin is not driven again.
C3_DlCancelReleases ==
    /\ [][(shutdown /\ pcDlDrv \in DlSleeps /\ pcDlDrv' # pcDlDrv)
            => /\ pcDlDrv' = "returned"
               /\ mode'["led"] = "IN"
               /\ level' = level]_vars
    /\ [][pcDlDrv = "returned"
            => /\ pcDlDrv' = "returned"
               /\ mode'["led"] = mode["led"]
               /\ level'["led"] = level["led"]]_vars

\* C3 happens: cancelled in the HIGH phase, the pin released
C3_Witness ==
    /\ pcDlDrv = "returned"
    /\ dlCancelAt = "high"
    /\ level["led"] = "HIGH"
    /\ mode["led"] = "IN"

\* C4: a monitor loop stops only when it is cancelled, whatever the check does.
C4_MonitorsStopOnlyWhenCancelled ==
    /\ pcLocMon \in Stopped => (shutdown /\ pcLocMon = "cancelled")
    /\ pcDlMon \in Stopped => (shutdown /\ pcDlMon = "cancelled")

\* C5: after a failed check the shared value is the fallback (speed 0, flag
\* False), never the value of an earlier successful check.
C5_FailedCheckStoresFallback ==
    /\ lastDlCheck = "failed" => download_speed = 0
    /\ lastLocCheck = "failed" => licit_ip = FALSE

C8_HalfPeriodAt375000 ==
    (pcDlDrv \in DlSleeps /\ dlSample = 375000)
        => /\ 100 * freq = 625 * FreqDen
           /\ IsCentiSeconds(dlSleep, 8)

\* C9: whatever speed the monitor stored, the frequency of a cycle is at least
\* 0.5 Hz and at most 12 Hz.
C9_FreqClamped ==
    pcDlDrv \in DlSleeps => (HalfHz <= freq /\ freq <= Hz(12))

C11_FlipShownAfterOneSleep ==
    [][(~shutdown /\ pcLocDrv \in LocSleeps /\ pcLocDrv' # pcLocDrv
          /\ (level["led_ok"] = "HIGH") # licit_ip)
        => (level'["led_ok"] = "HIGH") = licit_ip]_vars

\* C12: whenever the localization driver is suspended, also right after a
\* change from OK to KO or from KO to OK, led_ok and led_ko are not both HIGH.
C12_NeverBothHigh ==
    ~(level["led_ok"] = "HIGH" /\ level["led_ko"] = "HIGH")

\* C12 happens: the driver went from OK to KO and is in the KO on-phase
C12_Witness ==
    /\ Len(locHist) >= 2
    /\ SubSeq(locHist, Len(locHist) - 1, Len(locHist)) = <<"OK", "KO">>
    /\ pcLocDrv = "ko_on"
    /\ level["led_ko"] = "HIGH"
    /\ level["led_ok"] = "LOW"

\* C13: the speed is read once per cycle, at its start: the LOW phase lasts as
\* long as the HIGH phase of the same cycle whatever the monitor wrote in
\* between, and the next cycle starts with the speed as it is then.
C13_SampledOncePerCycle ==
    /\ [](pcDlDrv \in DlSleeps
            => /\ freq = Freq(dlSample)
               /\ dl_ontime = Period(freq)
               /\ dl_offtime = dl_ontime
               /\ dlSleep = dl_ontime)
    /\ [][(pcDlDrv = "high" /\ pcDlDrv' = "low")
            => /\ dlSleep' = dlSleep
               /\ dlSample' = dlSample
               /\ freq' = freq]_vars
    /\ [][(pcDlDrv = "low" /\ pcDlDrv' = "high")
            => /\ dlSample' = download_speed
               /\ freq' = Freq(download_speed)]_vars

\* C13 happens: in the LOW phase, after the monitor wrote another speed
C13_Witness ==
    /\ pcDlDrv = "low"
    /\ dlSample = 375000
    /\ download_speed = 750000
    /\ IsCentiSeconds(dlSleep, 16)

\* C14: if the check of one monitor never returns while the checks of the other
\* monitor keep returning, then under fair scheduling both LED drivers keep
\* completing cycles and the other monitor keeps starting checks; the driver
\* paired with the stalled monitor samples the last written value in each pass.
C14_HungCheckStallsOnlyItsMonitor ==
    /\ (<>[](pcLocMon = "checking") /\ []<>(pcDlMon = "sleeping"))
          => /\ []<>(locBeat = 0) /\ []<>(locBeat = 1)
             /\ []<>(pcDlDrv = "high") /\ []<>(pcDlDrv = "low")
             /\ []<>(pcDlMon = "checking")
    /\ (<>[](pcDlMon = "checking") /\ []<>(pcLocMon = "sleeping"))
          => /\ []<>(pcDlDrv = "high") /\ []<>(pcDlDrv = "low")
             /\ []<>(locBeat = 0) /\ []<>(locBeat = 1)
             /\ []<>(pcLocMon = "checking")
    /\ [][(pcLocMon = "checking" /\ locBeat' # locBeat)
            => (pcLocDrv' = "ok_sleep") = locWritten]_vars
    /\ [][(pcDlMon = "checking" /\ pcDlDrv' = "high" /\ pcDlDrv # "high")
            => freq' = Freq(dlWritten)]_vars

\* C14 happens: the first localization check has not returned, and meanwhile
\* its driver blinks led_ko and the download pipeline has sampled a speed
C14_Witness ==
    /\ pcLocMon = "checking"
    /\ lastLocCheck = "none"
    /\ pcLocDrv = "ko_off"
    /\ locBeat = 0
    /\ pcDlMon = "sleeping"
    /\ pcDlDrv = "low"
    /\ dlSample = 375000

\* moves of a monitor coroutine: call the check, store and sleep, call again;
\* an exception or a cancellation ends it
MonitorMoves ==
    {<<"init", "checking">>, <<"sleeping", "checking">>, <<"checking", "sleeping">>,
     <<"checking", "crashed">>, <<"init", "cancelled">>, <<"checking", "cancelled">>,
     <<"sleeping", "cancelled">>}

\* C15: the licit flag is changed only by check_localisation_status storing a
\* result and the download speed only by get_download_speed storing one; a
\* step of one pipeline leaves the other pipeline's value, locals and pin as
\* they are, and what a driver does is decided by its own value alone.
C15_OneWriterOneReader ==
    /\ [][licit_ip' # licit_ip
            => (pcLocMon = "checking" /\ pcLocMon' = "sleeping")]_vars
    /\ [][download_speed' # download_speed
            => (pcDlMon = "checking" /\ pcDlMon' = "sleeping")]_vars
    /\ [][(pcLocMon' # pcLocMon \/ pcLocDrv' # pcLocDrv \/ locBeat' # locBeat)
            => UNCHANGED <<dlMonVars, dlDrvVars, dlSample, mode["led"],
                           level["led"]>>]_vars
    /\ [][(pcDlMon' # pcDlMon \/ pcDlDrv' # pcDlDrv)
            => UNCHANGED <<locMonVars, locDrvVars, locBeat, mode["led_ok"],
                           mode["led_ko"], level["led_ok"], level["led_ko"]>>]_vars
    /\ [][locBeat' # locBeat
            => pcLocDrv' = (IF licit_ip THEN "ok_sleep" ELSE "ko_on")]_vars
    /\ [][(pcDlDrv' = "high" /\ pcDlDrv # "high")
            => freq' = HalfHz + 23 * download_speed]_vars

\* C15 happens: both values have been written and both drivers have read theirs
C15_Witness ==
    /\ licit_ip = TRUE
    /\ pcLocDrv = "ok_sleep"
    /\ download_speed = 375000
    /\ dlSample = 375000
    /\ pcDlDrv = "high"

\* C16: each shared value is the value of the latest completed assignment by
\* its monitor (the initial value before the first one), and what a driver
\* samples at a loop head is that value.
C16_SampleIsLatestWrite ==
    /\ [](licit_ip = locWritten /\ download_speed = dlWritten)
    /\ [][(pcDlDrv' = "high" /\ pcDlDrv # "high")
            => /\ dlSample' = dlWritten
               /\ freq' = Freq(dlWritten)]_vars
    /\ [][locBeat' # locBeat
            => (pcLocDrv' = "ok_sleep") = locWritten]_vars

\* C16 happens: a second stats result replaced the first before the driver
\* sampled, and the driver holds the second
C16_Witness ==
    /\ dlChecks = "mixed"
    /\ lastDlCheck = "failed"
    /\ dlWritten = 0
    /\ pcDlDrv = "high"
    /\ dlSample = 0
    /\ locWritten = TRUE
    /\ pcLocDrv = "ok_sleep"

\* C17: a monitor goes check, store, sleep, check: its value changes only in
\* the step that ends a check and starts the sleep, a check starts only from
\* the start of the task or from the end of the sleep, and nothing is written
\* from the start of the sleep to the end of the next check.
C17_CheckStoreSleepOrder ==
    /\ [][pcLocMon' # pcLocMon => <<pcLocMon, pcLocMon'>> \in MonitorMoves]_vars
    /\ [][pcDlMon' # pcDlMon => <<pcDlMon, pcDlMon'>> \in MonitorMoves]_vars
    /\ [][(pcLocMon = "checking" /\ pcLocMon' = "sleeping")
            => licit_ip' = locWritten']_vars
    /\ [][(pcDlMon = "checking" /\ pcDlMon' = "sleeping")
            => download_speed' = dlWritten']_vars
    /\ [][~(pcLocMon = "checking" /\ pcLocMon' = "sleeping")
            => licit_ip' = licit_ip]_vars
    /\ [][~(pcDlMon = "checking" /\ pcDlMon' = "sleeping")
            => download_speed' = download_speed]_vars

\* C17 happens: the next check of each monitor is in flight and the values
\* stored by the previous checks are still there
C17_Witness ==
    /\ pcLocMon = "checking"
    /\ lastLocCheck = "ok"
    /\ licit_ip = TRUE
    /\ pcDlMon = "checking"
    /\ lastDlCheck = "ok"
    /\ download_speed = 375000

\* C18: check_licit_ip returns False when the lookup fails in any way (empty
\* output, status other than 'success', malformed response) and otherwise True
\* exactly when the country matches no forbidden country, ignoring case.
C18_CheckLicitIpTotal ==
    lastLookup.kind # "none"
        => /\ pcLocMon # "crashed"
           /\ licit_ip = (/\ lastLookup.kind = "success"
                          /\ Lower(lastLookup.country)
                                \notin {Lower(c) : c \in ForbiddenCountries})

\* C19: for every speed the monitor has stored, the frequency blink_led
\* computes is strictly positive, so 1/freq is defined in every cycle.
C19_FreqPositive ==
    /\ Freq(download_speed) > 0
    /\ pcDlDrv \in DlSleeps
          => /\ freq > 0
             /\ dl_ontime.den > 0
             /\ dl_offtime.den > 0
             /\ dlSleep.den > 0

\* C19 happens: a cycle started with the speed 0 that the monitor stored as
\* the fallback of a failed stats call
C19_Witness ==
    /\ lastDlCheck = "failed"
    /\ dlChecks = "mixed"
    /\ download_speed = 0
    /\ pcDlDrv = "high"
    /\ dlSample = 0
    /\ freq = HalfHz

\* the stats call returned None: no session id, a status other than 200, or a
\* body without 'arguments'
StatsNone(o) == o.kind \in {"no_session_id", "bad_status", "no_arguments"}

\* C20: in the first asyncio version, after a stats call that returned None
\* the monitor has stored 0 and goes on with its loop (sleeping, or in its
\* next call, unless it was cancelled).
C20_LegacyNoneStoresZero ==
    StatsNone(lastStats)
        => /\ pcDlMon \in {"sleeping", "checking", "cancelled"}
           /\ download_speed = 0

\* the localization leds of the first asyncio version are never both HIGH
LegacyNeverBothHigh == ~(level["led_ok"] = "HIGH" /\ level["led_ko"] = "HIGH")

\* the stats call of seed_watcher.py did not produce a download speed
SyncStatsFailed(o) == o.kind \notin {"none", "stats"}

\* C21: in seed_watcher.py a failed stats call, at start-up or on a later
\* tick, does not end main: the script goes on, and what it shows for the
\* download is 'no traffic' (speed 0).
C21_SyncFailedStatsNotFatal ==
    SyncStatsFailed(lastStats)
        => /\ pcMain \notin SyncCrashed
           /\ pcMain \in {"show_loc", "show_download", "sleep"} => speed = 0

\* C22: in seed_watcher.py on a Raspberry Pi, once a KeyboardInterrupt has
\* ended the script, GPIO.cleanup() has run: no pin is left configured as an
\* output.
C22_SyncInterruptCleansUp ==
    (pcMain = "exit_0" /\ ON_PI) => \A p \in Pins : mode[p] # "OUT"

\* C23: GPIO.output is only ever called on a pin that is set up as an output:
\* main never stops on the RuntimeError of an output on another pin, a blink
\* loop that sleeps has its pins set up as outputs, and a pin that is HIGH
\* has been set up.
C23_OutputOnlyAfterSetup ==
    /\ pcMain # "gpio_error"
    /\ pcLocDrv \in (LocSleeps \cup {"ok_on", "ok_off"})
          => GpioIsOutput(mode, "led_ok") /\ GpioIsOutput(mode, "led_ko")
    /\ pcDlDrv \in DlSleeps => GpioIsOutput(mode, "led")
    /\ \A p \in Pins : level[p] = "HIGH" => mode[p] # "UNSET"

\* C24: until the first localization check has finished the flag is False,
\* led_ok is LOW and the driver is in its KO branch; until the first stats
\* call has finished the speed is 0 and the download led blinks at freq_min;
\* led_ok goes HIGH only when a check has finished and the latest value a
\* check has stored is True.
C24_WorstCaseUntilFirstCheck ==
    /\ [](lastLocCheck = "none"
            => /\ licit_ip = FALSE
               /\ level["led_ok"] = "LOW"
               /\ pcLocDrv # "ok_sleep")
    /\ [](lastDlCheck = "none"
            => /\ download_speed = 0
               /\ pcDlDrv \in DlSleeps => freq = HalfHz)
    /\ [][(level["led_ok"] = "LOW" /\ level'["led_ok"] = "HIGH")
            => (locWritten /\ lastLocCheck # "none")]_vars

\* C24 happens: both first checks are in flight while both leds blink
C24_Witness ==
    /\ pcLocMon = "checking"
    /\ lastLocCheck = "none"
    /\ pcLocDrv = "ko_off"
    /\ locHist = <<"KO">>
    /\ pcDlMon = "checking"
    /\ lastDlCheck = "none"
    /\ pcDlDrv = "low"
    /\ freq = HalfHz
====
